---------------------------- MODULE Spec2Model ----------------------------
(***************************************************************************)
(* Model of the opencode-rtk plugin (src/index.ts, kept here as            *)
(* src/unnamed/part_002): the configuration loader, the matching, safety   *)
(* and rewrite functions, the plugin initialisation and the                *)
(* tool.execute.before hook with its session statistics.                   *)
(*                                                                         *)
(* A JavaScript string is a sequence of one-character strings, so that     *)
(* trim, startsWith, split, the regular expression test and replace are    *)
(* computed character by character as the code computes them.              *)
(***************************************************************************)
EXTENDS Naturals, Sequences, FiniteSets, TLC

(***************************************************************************)
(* Bounds of the model.                                                    *)
(***************************************************************************)
\* Longest command enumerated exhaustively over Alphabet.
MaxLen == 3
\* Number of consecutive hook invocations over one command (the first call
\* and the repeated passes over its own output).
MaxPasses == 2

\* Restarts of the host within one behaviour.
MaxRestarts == 1

\* Longest pattern list whose every permutation is tried; a longer list is
\* reversed and rotated.
MaxPermuted == 3

(***************************************************************************)
(* Characters and strings.                                                 *)
(***************************************************************************)
SP == " "
TAB == "\t"
\* The backquote character, which a TLA+ string literal cannot hold.
BACKQUOTE == "backquote"

\* The characters String.prototype.trim strips and /\s/ matches that the
\* model's strings can hold.
Whitespace == {SP, TAB}

\* The characters of the exhaustively enumerated commands: two letters, the
\* two whitespace characters and the characters of the shell operators.
Alphabet == {"a", "b", SP, TAB, "|", ";", "&", "<"}

RECURSIVE SeqsOfLen(_, _)
SeqsOfLen(S, n) ==
    IF n = 0 THEN {<<>>}
    ELSE {<<c>> \o s : c \in S, s \in SeqsOfLen(S, n - 1)}

BoundedSeqs(S, n) == UNION {SeqsOfLen(S, k) : k \in 0..n}

IsWs(c) == c \in Whitespace

AllWs(s) == \A i \in 1..Len(s) : IsWs(s[i])

\* String.prototype.trim: strips the whitespace at both ends.
Trim(s) ==
    IF AllWs(s) THEN <<>>
    ELSE LET lo == CHOOSE i \in 1..Len(s) :
                       /\ ~IsWs(s[i])
                       /\ \A j \in 1..(i - 1) : IsWs(s[j])
             hi == CHOOSE i \in 1..Len(s) :
                       /\ ~IsWs(s[i])
                       /\ \A j \in (i + 1)..Len(s) : IsWs(s[j])
         IN  SubSeq(s, lo, hi)

\* String.prototype.startsWith.
StartsWith(s, p) == Len(p) <= Len(s) /\ SubSeq(s, 1, Len(p)) = p

\* String.prototype.split(/\s+/): the pieces between maximal runs of
\* whitespace; a string without whitespace (the empty one too) is one piece.
RECURSIVE SplitWs(_)
SplitWs(s) ==
    IF \A i \in 1..Len(s) : ~IsWs(s[i]) THEN <<s>>
    ELSE LET i == CHOOSE k \in 1..Len(s) :
                      /\ IsWs(s[k])
                      /\ \A j \in 1..(k - 1) : ~IsWs(s[j])
             after == {k \in (i + 1)..Len(s) : ~IsWs(s[k])}
             j == IF after = {} THEN Len(s) + 1
                  ELSE CHOOSE k \in after : \A m \in after : k <= m
         IN  <<SubSeq(s, 1, i - 1)>> \o SplitWs(SubSeq(s, j, Len(s)))

\* The 1-based position of the first occurrence of w in s, 0 when there is
\* none (String.prototype.indexOf, plus one).
IndexOf(s, w) ==
    LET hits == {i \in 1..(Len(s) - Len(w) + 1) : SubSeq(s, i, i + Len(w) - 1) = w}
    IN  IF hits = {} THEN 0 ELSE CHOOSE i \in hits : \A k \in hits : i <= k

\* GetSubstitution of String.prototype.replace for a string pattern (no
\* captures): in the replacement text "$$" stands for "$", "$&" for the
\* matched text, "$" with a backquote for the text before the match and "$"
\* with a quote for the text after it; any other "$" is literal.
RECURSIVE GetSubstitution(_, _, _, _)
GetSubstitution(matched, before, after, replacement) ==
    IF replacement = <<>> THEN <<>>
    ELSE IF Head(replacement) = "$" /\ Len(replacement) >= 2
              /\ replacement[2] \in {"$", "&", BACKQUOTE, "'"}
         THEN LET c == replacement[2]
                  rest == SubSeq(replacement, 3, Len(replacement))
                  sub == CASE c = "$" -> <<"$">>
                           [] c = "&" -> matched
                           [] c = BACKQUOTE -> before
                           [] OTHER -> after
              IN  sub \o GetSubstitution(matched, before, after, rest)
         ELSE <<Head(replacement)>>
                  \o GetSubstitution(matched, before, after, Tail(replacement))

\* String.prototype.replace(searchString, replacementString): the first
\* occurrence only; the string itself when there is none.
ReplaceFirst(s, w, replacement) ==
    LET pos == IndexOf(s, w)
    IN  IF pos = 0 THEN s
        ELSE LET before == SubSeq(s, 1, pos - 1)
                 after == SubSeq(s, pos + Len(w), Len(s))
             IN  before \o GetSubstitution(w, before, after, replacement) \o after

(***************************************************************************)
(* Configuration.                                                          *)
(***************************************************************************)
\* The compressor invocation token followed by one space: the literal
\* "rtk " of the idempotence guard and of the fallback prefix.
RTK_SPACE == <<"r", "t", "k", " ">>

DEFAULT_commands ==
    << <<"g", "i", "t", " ", "s", "t", "a", "t", "u", "s">>,
       <<"g", "i", "t", " ", "d", "i", "f", "f">>,
       <<"g", "i", "t", " ", "l", "o", "g">>,
       <<"l", "s">>,
       <<"c", "a", "t">>,
       <<"r", "g">>,
       <<"g", "r", "e", "p">>,
       <<"f", "i", "n", "d">>,
       <<"c", "a", "r", "g", "o">>,
       <<"d", "o", "c", "k", "e", "r">>,
       <<"k", "u", "b", "e", "c", "t", "l">>,
       <<"p", "y", "t", "e", "s", "t">>,
       <<"g", "o", " ", "t", "e", "s", "t">>,
       <<"g", "o", " ", "b", "u", "i", "l", "d">>,
       <<"g", "o", " ", "v", "e", "t">>,
       <<"v", "i", "t", "e", "s", "t">>,
       <<"e", "s", "l", "i", "n", "t">>,
       <<"t", "s", "c">>,
       <<"r", "u", "f", "f">>,
       <<"p", "i", "p">>,
       <<"g", "o", "l", "a", "n", "g", "c", "i", "-", "l", "i", "n", "t">>,
       <<"p", "r", "e", "t", "t", "i", "e", "r">>,
       <<"c", "u", "r", "l">>,
       <<"g", "h">>,
       <<"n", "p", "m", " ", "t", "e", "s", "t">> >>

DEFAULT_rewriteMap ==
    (<<"c", "a", "t">> :> <<"r", "t", "k", " ", "r", "e", "a", "d">>)
    @@ (<<"r", "g">> :> <<"r", "t", "k", " ", "g", "r", "e", "p">>)
    @@ (<<"e", "s", "l", "i", "n", "t">> :> <<"r", "t", "k", " ", "l", "i", "n", "t">>)

\* JSON values as far as the loader tells them apart.
JBool(b) == [type |-> "boolean", val |-> b]
JArray(a) == [type |-> "array", val |-> a]
JObject(o) == [type |-> "object", val |-> o]
JNumber(n) == [type |-> "number", val |-> n]
JString(s) == [type |-> "string", val |-> s]

DEFAULT_CONFIG ==
    [enabled |-> JBool(TRUE),
     commands |-> DEFAULT_commands,
     rewriteMap |-> DEFAULT_rewriteMap]

\* JavaScript truthiness of a JSON value (the operand of "!config.enabled").
Truthy(v) ==
    CASE v.type = "boolean" -> v.val
      [] v.type = "null" -> FALSE
      [] v.type = "string" -> v.val # <<>>
      [] v.type = "number" -> v.val # 0
      [] OTHER -> TRUE

\* The object with no own property.
EmptyMap == [k \in {} |-> <<>>]

\* rtk-wrapper-config.json: no such file, a file JSON.parse rejects, or a
\* parsed JSON object, which is a function from the keys it holds to values.
FileAbsent == [kind |-> "absent"]
FileMalformed == [kind |-> "malformed"]
FileJson(obj) == [kind |-> "json", parsed |-> obj]

\* The file holds the JSON text null: JSON.parse returns null, and reading
\* a property of it throws inside the try block.
FileNull == [kind |-> "null"]

\* parsed.field, with no entry standing for undefined.
HasField(parsed, f) == f \in DOMAIN parsed

\* loadOrCreateConfig: the configuration returned for a content of the
\* configuration file.
loadOrCreateConfig(file) ==
    IF file.kind = "absent" THEN DEFAULT_CONFIG
    ELSE IF file.kind \in {"malformed", "null"} THEN DEFAULT_CONFIG
    ELSE LET parsed == file.parsed
         IN  [enabled |->
                  IF HasField(parsed, "enabled") /\ parsed.enabled.type # "null"
                  THEN parsed.enabled
                  ELSE DEFAULT_CONFIG.enabled,
              commands |->
                  IF HasField(parsed, "commands") /\ parsed.commands.type = "array"
                  THEN parsed.commands.val
                  ELSE DEFAULT_CONFIG.commands,
              rewriteMap |->
                  IF HasField(parsed, "rewriteMap")
                     /\ parsed.rewriteMap.type \in {"object", "array"}
                  THEN parsed.rewriteMap.val
                  ELSE DEFAULT_CONFIG.rewriteMap]

\* The content loadOrCreateConfig leaves in the file: an absent file is
\* created with the defaults unless the write fails; an existing file is
\* only read.
FileAfterLoad(file, writeOk) ==
    IF file.kind = "absent" /\ writeOk
    THEN FileJson([enabled |-> DEFAULT_CONFIG.enabled,
                   commands |-> JArray(DEFAULT_CONFIG.commands),
                   rewriteMap |-> JObject(DEFAULT_CONFIG.rewriteMap)])
    ELSE file

(***************************************************************************)
(* Matching logic.                                                         *)
(***************************************************************************)
\* shouldWrap as a plain prefix test, without the word boundary.
shouldWrap_PlainPrefix(command, patterns) ==
    LET trimmed == Trim(command)
    IN  \E i \in 1..Len(patterns) : StartsWith(trimmed, patterns[i])

\* shouldWrap testing the first pattern of the list only.
shouldWrap_FirstOnly(command, patterns) ==
    LET trimmed == Trim(command)
    IN  /\ Len(patterns) >= 1
        /\ \/ trimmed = patterns[1]
           \/ StartsWith(trimmed, patterns[1] \o <<SP>>)

\* shouldWrap: some pattern equals the trimmed command or is followed in it
\* by one space.
shouldWrap(command, patterns) ==
    LET trimmed == Trim(command)
    IN  \E i \in 1..Len(patterns) :
            \/ trimmed = patterns[i]
            \/ StartsWith(trimmed, patterns[i] \o <<SP>>)

\* isSimpleCommand with the heredoc alternative left out of the expression.
isSimpleCommand_NoHeredoc(command) ==
    ~\E i \in 1..Len(command) :
        \/ command[i] \in {"|", ";"}
        \/ /\ i < Len(command)
           /\ command[i] = "&" /\ command[i + 1] = "&"

\* isSimpleCommand: the test of /[|;]|&&|\|\||<</ fails.
isSimpleCommand(command) ==
    ~\E i \in 1..Len(command) :
        \/ command[i] \in {"|", ";"}
        \/ /\ i < Len(command)
           /\ \/ command[i] = "&" /\ command[i + 1] = "&"
              \/ command[i] = "|" /\ command[i + 1] = "|"
              \/ command[i] = "<" /\ command[i + 1] = "<"

(***************************************************************************)
(* Rewrite logic.                                                          *)
(***************************************************************************)
\* Two of the properties every object inherits from Object.prototype, which
\* the "in" operator finds as it finds own keys.
P_toString == <<"t", "o", "S", "t", "r", "i", "n", "g">>
P_valueOf == <<"v", "a", "l", "u", "e", "O", "f">>
ObjectPrototypeKeys == {P_toString, P_valueOf}

\* firstWord in rewriteMap: an own or an inherited property.
InOperator(key, map) == key \in DOMAIN map \/ key \in ObjectPrototypeKeys

\* What Object.prototype.toString returns when String.prototype.replace
\* calls it as the replacer function (this is undefined).
OBJECT_UNDEFINED == <<"[", "o", "b", "j", "e", "c", "t", " ", "U", "n", "d", "e", "f", "i", "n", "e", "d", "]">>

Normal(v) == [type |-> "normal", value |-> v]
Throw == [type |-> "throw", value |-> <<>>]

\* trimmed.replace(firstWord, rewriteMap[firstWord]): an own key gives the
\* replacement text; an inherited property gives a function, which replace
\* calls for the text: Object.prototype.toString returns its tag,
\* Object.prototype.valueOf throws a TypeError on the undefined receiver.
ReplaceWithProperty(trimmed, firstWord, map) ==
    IF firstWord \in DOMAIN map
    THEN Normal(ReplaceFirst(trimmed, firstWord, map[firstWord]))
    ELSE IF firstWord = P_toString
    THEN LET pos == IndexOf(trimmed, firstWord)
         IN  Normal(SubSeq(trimmed, 1, pos - 1) \o OBJECT_UNDEFINED
                        \o SubSeq(trimmed, pos + Len(firstWord), Len(trimmed)))
    ELSE Throw

\* rewriteCommand: the completion of the call, normal with the rewritten
\* command or a throw.
rewriteCommand(command, rewriteMap) ==
    LET trimmed == Trim(command)
        firstWord == SplitWs(trimmed)[1]
    IN  IF InOperator(firstWord, rewriteMap)
        THEN ReplaceWithProperty(trimmed, firstWord, rewriteMap)
        ELSE Normal(RTK_SPACE \o trimmed)

(***************************************************************************)
(* The inputs of the model.                                                *)
(***************************************************************************)
\* Commands of the documentation and commands in their shape.
ExampleCommands ==
    { <<"l", "s">>,
      <<"l", "s", " ", "-", "l", "a">>,
      <<"l", "s", "o", "f">>,
      <<"g", "i", "t", " ", "s", "t", "a", "t", "u", "s", " ", "-", "s">>,
      <<"g", "i", "t", " ", "d", "i", "f", "f">>,
      <<"m", "a", "k", "e", " ", "b", "u", "i", "l", "d">>,
      <<"r", "t", "k", " ", "g", "i", "t", " ", "s", "t", "a", "t", "u", "s">>,
      <<"c", "a", "t", " ", "c", "a", "t", ".", "t", "x", "t">>,
      <<"c", "a", "t", " ", "f", "i", "l", "e", ".", "t", "x", "t">>,
      <<"g", "i", "t", " ", "s", "t", "a", "t", "u", "s", " ", "|", " ", "g", "r", "e", "p", " ", "x">>,
      <<"g", "i", "t", " ", "a", "d", "d", " ", ".", " ", "&", "&", " ", "g", "i", "t", " ", "c", "o", "m", "m", "i", "t">>,
      <<"c", "a", "t", " ", "<", "<", "E", "O", "F">>,
      <<"l", "s", " ", "$", "(", "p", "w", "d", ")">>,
      <<"c", "a", "t", " ", BACKQUOTE, "l", "s", BACKQUOTE>>,
      <<" ", " ", "l", "s", " ", "-", "l", "a", " ">>,
      <<"t", "o", "S", "t", "r", "i", "n", "g">>,
      <<"v", "a", "l", "u", "e", "O", "f", " ", "x">>,
      <<"r", "t", "k">> }

\* output.args.command of a tool call.
Commands == BoundedSeqs(Alphabet, MaxLen) \cup ExampleCommands

\* The tool calls of the host: the bash tool with any command, another tool
\* with a command of the documentation in its arguments.
ToolCalls ==
    {[tool |-> "bash", command |-> c] : c \in Commands}
    \cup {[tool |-> "read", command |-> c] : c \in ExampleCommands}

\* Values of the "commands" key of the configuration file: over the letters
\* of Alphabet (the empty pattern and the token "rtk" among them), and of
\* the documentation.
ShortPatternLists ==
    { << <<"a">> >>,
      << <<"a", " ", "b">>, <<"b">> >>,
      << <<>>, <<"r", "t", "k">> >> }

S_git == <<"g", "i", "t">>
S_ls == <<"l", "s">>
S_cat == <<"c", "a", "t">>

PatternLists ==
    ShortPatternLists
    \cup { <<>>, <<S_git, S_ls, S_cat>>, <<P_valueOf, P_toString>> }

\* Values of the "rewriteMap" key of the configuration file: no alias, an
\* alias that is no rtk command, and aliases with "$" in their values.
ShortAliasTables ==
    { EmptyMap,
      <<"a">> :> <<"b">>,
      (<<"a">> :> <<"r", "t", "k", " ", "$", "$">>)
          @@ (<<"b">> :> <<"r", "t", "k", " ", "$", "&">>) }

AliasTables == ShortAliasTables \cup {DEFAULT_rewriteMap}

JsonConfig(e, c, m) ==
    [enabled |-> JBool(e), commands |-> JArray(c), rewriteMap |-> JObject(m)]

\* Contents of rtk-wrapper-config.json at plugin initialisation: complete
\* objects, enabled and disabled, and objects with keys missing.
JsonObjects ==
    {JsonConfig(TRUE, c, m) : c \in ShortPatternLists, m \in ShortAliasTables}
    \cup {JsonConfig(TRUE, <<>>, EmptyMap),
          JsonConfig(TRUE, <<S_git, S_ls, S_cat>>, DEFAULT_rewriteMap),
          JsonConfig(TRUE, <<P_valueOf, P_toString>>, EmptyMap),
          JsonConfig(FALSE, << <<"a">> >>, DEFAULT_rewriteMap),
          [enabled |-> JBool(FALSE)],
          [commands |-> JArray(<< <<"a">> >>)],
          [k \in {} |-> JBool(TRUE)]}

ConfigFiles == {FileAbsent, FileMalformed} \cup {FileJson(o) : o \in JsonObjects}

(***************************************************************************)
(* The state.                                                              *)
(***************************************************************************)
VARIABLES
    configFile,    \* content of rtk-wrapper-config.json
    commandFile,   \* commands/rtk-gain.md: "absent", "user" or "plugin"
    phase,         \* "start" before RTKPlugin has run, "loaded" after
    config,        \* the configuration RTKPlugin holds
    hooks,         \* keys of the object RTKPlugin returned to the host
    history,       \* the tool calls so far: tool, command before and after
    sessionStats,  \* the module-scope session statistics
    gainReport,    \* what the latest rtk_gain call returned
    restarts,      \* how often the host has been restarted
    pending,       \* hook invocations suspended at their await
    opencodeJson,  \* content of opencode.json
    cliResult      \* outcome of the latest run of the command line tool

vars == <<configFile, commandFile, phase, config, hooks, history, sessionStats,
          gainReport, restarts, pending, opencodeJson, cliResult>>

\* The state of the command line tool, which the plugin never touches.
cliVars == <<opencodeJson, cliResult>>

\* No configuration is held before RTKPlugin has run.
NoConfig == [enabled |-> JBool(FALSE), commands |-> <<>>, rewriteMap |-> EmptyMap]

\* sessionStats as the module creates it; order is the insertion order of
\* the keys of commands.
NoStats == [rewriteCount |-> 0, commands |-> EmptyMap, order |-> <<>>]

\* No rtk_gain call has returned yet.
NoReport == [kind |-> "none"]

\* The command line tool has not run.
NoRun == [command |-> "none"]

\* The state before RTKPlugin runs, for the files of the configuration
\* directory.
InitPlugin(configFiles, commandFiles) ==
    /\ configFile \in configFiles
    /\ commandFile \in commandFiles
    /\ phase = "start"
    /\ config = NoConfig
    /\ hooks = {}
    /\ history = <<>>
    /\ sessionStats = NoStats
    /\ gainReport = NoReport
    /\ restarts = 0
    /\ pending = {}

\* The same with the command line tool left aside.
InitWith(configFiles, commandFiles) ==
    /\ InitPlugin(configFiles, commandFiles)
    /\ opencodeJson = FileAbsent
    /\ cliResult = NoRun

\* A session that starts with the slash command file of an earlier session
\* in place.
Init == InitWith(ConfigFiles, {"user"})

(***************************************************************************)
(* Plugin initialisation.                                                  *)
(***************************************************************************)
\* RTKPlugin without the early return of a disabled plugin.
RegisteredHooks_IgnoreEnabled(cfg) == {"tool", "tool.execute.before"}

\* The keys of the object RTKPlugin returns for a configuration.
RegisteredHooks(cfg) ==
    IF ~Truthy(cfg.enabled) THEN {} ELSE {"tool", "tool.execute.before"}

\* RTKPlugin writing the slash command file whether or not one exists.
RTKPlugin_OverwritesCommandFile ==
    /\ phase = "start"
    /\ \E writeOk \in BOOLEAN, commandWriteOk \in BOOLEAN :
        LET cfg == loadOrCreateConfig(configFile)
        IN  /\ configFile' = FileAfterLoad(configFile, writeOk)
            /\ config' = cfg
            /\ hooks' = RegisteredHooks(cfg)
            /\ commandFile' =
                   IF Truthy(cfg.enabled) /\ commandWriteOk
                   THEN "plugin"
                   ELSE commandFile
    /\ phase' = "loaded"
    /\ UNCHANGED <<history, sessionStats, gainReport, restarts, pending, cliVars>>

\* RTKPlugin: loads the configuration; a disabled plugin returns no hook; an
\* enabled one creates the slash command file when absent (a failure is
\* swallowed) and returns the rtk_gain tool and the hook.
RTKPlugin ==
    /\ phase = "start"
    /\ \E writeOk \in BOOLEAN, commandWriteOk \in BOOLEAN :
        LET cfg == loadOrCreateConfig(configFile)
        IN  /\ configFile' = FileAfterLoad(configFile, writeOk)
            /\ config' = cfg
            /\ hooks' = RegisteredHooks(cfg)
            /\ commandFile' =
                   IF Truthy(cfg.enabled) /\ commandFile = "absent" /\ commandWriteOk
                   THEN "plugin"
                   ELSE commandFile
    /\ phase' = "loaded"
    /\ UNCHANGED <<history, sessionStats, gainReport, restarts, pending, cliVars>>

(***************************************************************************)
(* The tool.execute.before hook.                                           *)
(***************************************************************************)
Unchanged(command) == [result |-> "unchanged", command |-> command]
Rewritten(command) == [result |-> "rewritten", command |-> command]
Threw(command) == [result |-> "threw", command |-> command]

\* The hook without its test of the tool name.
HookDecision_AnyTool(cfg, tool, command) ==
    IF command = <<>> THEN Unchanged(command)
    ELSE LET trimmed == Trim(command)
         IN  IF StartsWith(trimmed, RTK_SPACE) THEN Unchanged(command)
             ELSE IF ~isSimpleCommand(trimmed) THEN Unchanged(command)
             ELSE IF ~shouldWrap(trimmed, cfg.commands) THEN Unchanged(command)
             ELSE LET rewritten == rewriteCommand(trimmed, cfg.rewriteMap)
                  IN  IF rewritten.type = "throw" THEN Threw(command)
                      ELSE Rewritten(rewritten.value)

\* The hook without its "already starts with rtk" guard.
HookDecision_NoPrefixGuard(cfg, tool, command) ==
    IF tool # "bash" THEN Unchanged(command)
    ELSE IF command = <<>> THEN Unchanged(command)
    ELSE LET trimmed == Trim(command)
         IN  IF ~isSimpleCommand(trimmed) THEN Unchanged(command)
             ELSE IF ~shouldWrap(trimmed, cfg.commands) THEN Unchanged(command)
             ELSE LET rewritten == rewriteCommand(trimmed, cfg.rewriteMap)
                  IN  IF rewritten.type = "throw" THEN Threw(command)
                      ELSE Rewritten(rewritten.value)

\* The hook without its shouldWrap guard.
HookDecision_NoMatchGuard(cfg, tool, command) ==
    IF tool # "bash" THEN Unchanged(command)
    ELSE IF command = <<>> THEN Unchanged(command)
    ELSE LET trimmed == Trim(command)
         IN  IF StartsWith(trimmed, RTK_SPACE) THEN Unchanged(command)
             ELSE IF ~isSimpleCommand(trimmed) THEN Unchanged(command)
             ELSE LET rewritten == rewriteCommand(trimmed, cfg.rewriteMap)
                  IN  IF rewritten.type = "throw" THEN Threw(command)
                      ELSE Rewritten(rewritten.value)

\* The hook writing its trimmed copy back when it passes a command through.
HookDecision_WritesTrimmed(cfg, tool, command) ==
    IF tool # "bash" THEN Unchanged(command)
    ELSE IF command = <<>> THEN Unchanged(command)
    ELSE LET trimmed == Trim(command)
         IN  IF StartsWith(trimmed, RTK_SPACE) THEN Unchanged(trimmed)
             ELSE IF ~isSimpleCommand(trimmed) THEN Unchanged(trimmed)
             ELSE IF ~shouldWrap(trimmed, cfg.commands) THEN Unchanged(trimmed)
             ELSE LET rewritten == rewriteCommand(trimmed, cfg.rewriteMap)
                  IN  IF rewritten.type = "throw" THEN Threw(command)
                      ELSE Rewritten(rewritten.value)

\* The guard chain of the hook and its rewrite: the outcome of the call and
\* output.args.command after it.
HookDecision(cfg, tool, command) ==
    IF tool # "bash" THEN Unchanged(command)
    ELSE IF command = <<>> THEN Unchanged(command)
    ELSE LET trimmed == Trim(command)
         IN  IF StartsWith(trimmed, RTK_SPACE) THEN Unchanged(command)
             ELSE IF ~isSimpleCommand(trimmed) THEN Unchanged(command)
             ELSE IF ~shouldWrap(trimmed, cfg.commands) THEN Unchanged(command)
             ELSE LET rewritten == rewriteCommand(trimmed, cfg.rewriteMap)
                  IN  IF rewritten.type = "throw" THEN Threw(command)
                      ELSE Rewritten(rewritten.value)

\* The statistics key taken from the first word alone.
CmdKey_FirstWordOnly(trimmed) == SplitWs(trimmed)[1]

\* The statistics key: the first two words of the trimmed command, or the
\* only one.
CmdKey(trimmed) ==
    LET words == SplitWs(trimmed)
    IN  IF Len(words) >= 2 THEN words[1] \o <<SP>> \o words[2] ELSE words[1]

\* The text a function inherited from Object.prototype turns into when
\* it is an operand of "+".
FunctionText(name) ==
    <<"f", "u", "n", "c", "t", "i", "o", "n", " ">> \o name
        \o <<"(", ")", " ", "{", " ", "[", "n", "a", "t", "i", "v", "e", " ",
             "c", "o", "d", "e", "]", " ", "}">>

\* (sessionStats.commands[cmdKey] ?? 0) + 1 on the plain object commands:
\* an own count is incremented, a key not found counts from 0, and a key
\* found on Object.prototype, or an own text, has "1" appended to its text.
NextCount(commands, cmdKey) ==
    LET old == IF cmdKey \in DOMAIN commands THEN commands[cmdKey]
               ELSE IF cmdKey \in ObjectPrototypeKeys
               THEN JString(FunctionText(cmdKey))
               ELSE JNumber(0)
    IN  IF old.type = "number" THEN JNumber(old.val + 1)
        ELSE JString(old.val \o <<"1">>)

\* sessionStats after one more rewrite of the command.
TrackRewrite(stats, trimmed) ==
    LET cmdKey == CmdKey(trimmed)
    IN  [rewriteCount |-> stats.rewriteCount + 1,
         commands |-> (cmdKey :> NextCount(stats.commands, cmdKey)) @@ stats.commands,
         order |-> IF cmdKey \in DOMAIN stats.commands THEN stats.order
                   ELSE Append(stats.order, cmdKey)]

\* The hook remembering each rewrite as a new alias of the configuration.
ToolExecuteBefore_MutatesConfig(tool, command) ==
    /\ phase = "loaded"
    /\ "tool.execute.before" \in hooks
    /\ Len(history) < MaxPasses
    /\ LET d == HookDecision(config, tool, command)
       IN  /\ history' = Append(history,
                  [tool |-> tool, before |-> command, after |-> d.command,
                   result |-> d.result])
           /\ sessionStats' =
                  IF d.result = "rewritten"
                  THEN TrackRewrite(sessionStats, Trim(command))
                  ELSE sessionStats
           /\ config' =
                  IF d.result = "rewritten"
                  THEN [config EXCEPT !.rewriteMap = (Trim(command) :> d.command) @@ @]
                  ELSE config
    /\ UNCHANGED <<configFile, commandFile, phase, hooks,
                   gainReport, restarts, pending, cliVars>>

\* The hook reading rtk-wrapper-config.json anew at every invocation.
ToolExecuteBefore_ReloadsConfig(tool, command) ==
    /\ phase = "loaded"
    /\ "tool.execute.before" \in hooks
    /\ Len(history) < MaxPasses
    /\ LET d == HookDecision(loadOrCreateConfig(configFile), tool, command)
       IN  /\ history' = Append(history,
                  [tool |-> tool, before |-> command, after |-> d.command,
                   result |-> d.result])
           /\ sessionStats' =
                  IF d.result = "rewritten"
                  THEN TrackRewrite(sessionStats, Trim(command))
                  ELSE sessionStats
    /\ UNCHANGED <<configFile, commandFile, phase, config, hooks,
                   gainReport, restarts, pending, cliVars>>

\* The hook rewriting a command only the first time its statistics key is
\* seen.
ToolExecuteBefore_OncePerKey(tool, command) ==
    /\ phase = "loaded"
    /\ "tool.execute.before" \in hooks
    /\ Len(history) < MaxPasses
    /\ LET first == HookDecision(config, tool, command)
           d == IF /\ first.result = "rewritten"
                   /\ CmdKey(Trim(command)) \in DOMAIN sessionStats.commands
                THEN Unchanged(command)
                ELSE first
       IN  /\ history' = Append(history,
                  [tool |-> tool, before |-> command, after |-> d.command,
                   result |-> d.result])
           /\ sessionStats' =
                  IF d.result = "rewritten"
                  THEN TrackRewrite(sessionStats, Trim(command))
                  ELSE sessionStats
    /\ UNCHANGED <<configFile, commandFile, phase, config, hooks,
                   gainReport, restarts, pending, cliVars>>

\* One invocation of the hook the plugin registered.
ToolExecuteBefore(tool, command) ==
    /\ phase = "loaded"
    /\ "tool.execute.before" \in hooks
    /\ Len(history) < MaxPasses
    /\ LET d == HookDecision(config, tool, command)
       IN  /\ history' = Append(history,
                  [tool |-> tool, before |-> command, after |-> d.command,
                   result |-> d.result])
           /\ sessionStats' =
                  IF d.result = "rewritten"
                  THEN TrackRewrite(sessionStats, Trim(command))
                  ELSE sessionStats
    /\ UNCHANGED <<configFile, commandFile, phase, config, hooks,
                   gainReport, restarts, pending, cliVars>>

\* A tool call of the host when the plugin returned no hook: the command is
\* executed as received.
ExecuteWithoutHook(tool, command) ==
    /\ phase = "loaded"
    /\ "tool.execute.before" \notin hooks
    /\ Len(history) < MaxPasses
    /\ history' = Append(history,
           [tool |-> tool, before |-> command, after |-> command,
            result |-> "nohook"])
    /\ UNCHANGED <<configFile, commandFile, phase, config, hooks, sessionStats,
                   gainReport, restarts, pending, cliVars>>

ExecuteTool(tool, command) ==
    \/ ToolExecuteBefore(tool, command)
    \/ ExecuteWithoutHook(tool, command)

\* The first tool call of the session.
FirstCall ==
    /\ history = <<>>
    /\ \E call \in ToolCalls : ExecuteTool(call.tool, call.command)

\* A repeated pass: the host hands the command the last call left to the
\* hooks again.
RepeatedPass ==
    /\ history # <<>>
    /\ LET last == history[Len(history)]
       IN  ExecuteTool(last.tool, last.after)

Next == RTKPlugin \/ FirstCall \/ RepeatedPass

Spec == Init /\ [][Next]_vars

(***************************************************************************)
(* The rtk_gain tool.                                                      *)
(***************************************************************************)
\* Whole minutes between module load and an rtk_gain call.
ElapsedMinutes == {59, 60}

\* The duration text: hours and minutes from one hour on, minutes before.
Duration(minutes) ==
    LET hours == minutes \div 60
    IN  IF hours > 0 THEN [hours |-> hours, minutes |-> minutes % 60]
        ELSE [minutes |-> minutes]

\* Object.entries(stats.commands) sorted by count, largest first; the sort
\* is stable, so equal counts stay in insertion order.
SortedCommands(stats) ==
    LET Position(k) == CHOOSE i \in 1..Len(stats.order) : stats.order[i] = k
        ComesBefore(k1, k2) ==
            \/ stats.commands[k1].val > stats.commands[k2].val
            \/ /\ stats.commands[k1].val = stats.commands[k2].val
               /\ Position(k1) < Position(k2)
    IN  [i \in 1..Len(stats.order) |->
            CHOOSE k \in DOMAIN stats.commands :
                Cardinality({k2 \in DOMAIN stats.commands : ComesBefore(k2, k)}) = i - 1]

\* The orders sort can return: the sorted one when every count is a
\* number; with a text among the counts the comparator b - a gives NaN, is
\* not a consistent comparator, and the order is any the implementation
\* chooses.
SortedCommandOrders(stats) ==
    IF \A k \in DOMAIN stats.commands : stats.commands[k].type = "number"
    THEN {SortedCommands(stats)}
    ELSE LET n == Len(stats.order)
         IN  {[i \in 1..n |-> stats.order[p[i]]] :
                 p \in {q \in [1..n -> 1..n] :
                           \A i, j \in 1..n : i # j => q[i] # q[j]}}

\* String.prototype.padEnd with spaces.
PadEnd(s, n) == s \o [i \in 1..(n - Len(s)) |-> SP]

\* The report for one order of the entries: its duration, its total and
\* its lines (command padded to the longest one, count, singular or
\* plural).
FormatSorted(stats, elapsedMinutes, sorted) ==
    IF stats.rewriteCount = 0
    THEN [kind |-> "empty", duration |-> Duration(elapsedMinutes)]
    ELSE LET maxCmdLen == CHOOSE n \in {Len(sorted[i]) : i \in DOMAIN sorted} :
                              \A i \in DOMAIN sorted : Len(sorted[i]) <= n
         IN  [kind |-> "stats",
              duration |-> Duration(elapsedMinutes),
              total |-> stats.rewriteCount,
              lines |-> [i \in DOMAIN sorted |->
                            [cmd |-> PadEnd(sorted[i], maxCmdLen),
                             count |-> stats.commands[sorted[i]],
                             noun |-> IF /\ stats.commands[sorted[i]].type = "number"
                                         /\ stats.commands[sorted[i]].val = 1
                                      THEN "rewrite" ELSE "rewrites"]]]

\* formatSessionStats: the reports it can return.
formatSessionStats(stats, elapsedMinutes) ==
    {FormatSorted(stats, elapsedMinutes, sorted) :
         sorted \in SortedCommandOrders(stats)}

\* The rtk_gain tool an enabled plugin registered: returns the report of
\* the session statistics and changes nothing.
RtkGain ==
    /\ phase = "loaded"
    /\ "tool" \in hooks
    /\ \E elapsed \in ElapsedMinutes :
           gainReport' \in formatSessionStats(sessionStats, elapsed)
    /\ UNCHANGED <<configFile, commandFile, phase, config, hooks, history,
                   sessionStats, restarts, pending, cliVars>>

(***************************************************************************)
(* A session of the host: tool calls, rtk_gain calls, edits of the         *)
(* configuration file while the plugin runs, and restarts.                 *)
(***************************************************************************)
\* Contents of rtk-wrapper-config.json in a session: well-formed ones, and
\* ones that are no well-formed configuration (text that is no JSON, the
\* JSON text null, an "enabled" that is no boolean, a "commands" that is no
\* array, a "rewriteMap" that is an array or a string).
SessionFiles ==
    { FileAbsent,
      FileMalformed,
      FileNull,
      FileJson(JsonConfig(TRUE, << <<"a", " ", "b">>, <<"b">> >>, <<"a">> :> <<"b">>)),
      FileJson(JsonConfig(FALSE, << <<"a">> >>, EmptyMap)),
      FileJson(JsonConfig(TRUE, <<P_valueOf, P_toString, <<"a">> >>, EmptyMap)),
      FileJson([enabled |-> JNumber(0),
                commands |-> JArray(<< <<"a">> >>),
                rewriteMap |-> JObject(EmptyMap)]),
      FileJson([enabled |-> JBool(TRUE),
                commands |-> JString(<<"a">>),
                rewriteMap |-> JArray(<<>>)]),
      FileJson([enabled |-> JString(<<>>),
                commands |-> JArray(<< <<"b">> >>),
                rewriteMap |-> JString(<<"a">>)]) }

\* The tool calls of a session.
SessionCalls ==
    { [tool |-> "bash", command |-> <<"a">>],
      [tool |-> "bash", command |-> <<" ", "a", " ", "b">>],
      [tool |-> "bash", command |-> <<"b", " ", "a">>],
      [tool |-> "bash", command |-> S_ls \o <<" ", "-", "l", "a">>],
      [tool |-> "bash", command |-> <<"a", "|", "b">>],
      [tool |-> "bash", command |-> P_toString],
      [tool |-> "read", command |-> <<"a">>] }

\* A tool call of the session.
SessionCall ==
    \E call \in SessionCalls : ExecuteTool(call.tool, call.command)

\* The user rewrites rtk-wrapper-config.json, or deletes it, while the
\* plugin runs.
EditConfigFile ==
    /\ phase = "loaded"
    /\ configFile' \in SessionFiles \ {configFile}
    /\ UNCHANGED <<commandFile, phase, config, hooks, history, sessionStats,
                   gainReport, restarts, pending, cliVars>>

\* The host is restarted: the module is loaded anew, so the plugin holds no
\* configuration, the statistics are those of a new session, and only the
\* files stay.
Restart ==
    /\ phase = "loaded"
    /\ restarts < MaxRestarts
    /\ restarts' = restarts + 1
    /\ phase' = "start"
    /\ config' = NoConfig
    /\ hooks' = {}
    /\ history' = <<>>
    /\ sessionStats' = NoStats
    /\ gainReport' = NoReport
    /\ pending' = {}
    /\ UNCHANGED <<configFile, commandFile, cliVars>>

InitSession == InitWith(SessionFiles, {"absent", "user"})

NextSession == RTKPlugin \/ SessionCall \/ RtkGain \/ EditConfigFile \/ Restart

SpecSession == InitSession /\ [][NextSession]_vars

(***************************************************************************)
(* Interleaved hook invocations.  A JavaScript function runs without       *)
(* interruption up to its next await; the hook has one, on the debug log   *)
(* call that ends the rewrite path, so an invocation is two steps: the     *)
(* part up to the await, and its resumption when the log call settles.     *)
(* Every invocation has its own output object.                             *)
(***************************************************************************)
\* The hook deciding on the command of the invocation that is suspended
\* the longest, as if the command were kept in a variable of the module.
ToolExecuteBeforeUntilAwait_SharedCommand(tool, command) ==
    /\ phase = "loaded"
    /\ "tool.execute.before" \in hooks
    /\ Len(history) < MaxPasses
    /\ LET shared == IF pending = {} THEN command
                     ELSE history[CHOOSE k \in pending : \A j \in pending : k <= j].before
           d == HookDecision(config, tool, shared)
       IN  /\ history' = Append(history,
                  [tool |-> tool, before |-> command, after |-> d.command,
                   result |-> d.result])
           /\ sessionStats' =
                  IF d.result = "rewritten"
                  THEN TrackRewrite(sessionStats, Trim(command))
                  ELSE sessionStats
           /\ pending' =
                  IF d.result = "rewritten" THEN pending \cup {Len(history) + 1}
                  ELSE pending
    /\ UNCHANGED <<configFile, commandFile, phase, config, hooks,
                   gainReport, restarts, cliVars>>

\* An invocation of the hook up to its await: the guards, the rewrite, the
\* assignment to output.args.command and the statistics; an invocation
\* that rewrote is then suspended on the log call, any other has returned.
ToolExecuteBeforeUntilAwait(tool, command) ==
    /\ phase = "loaded"
    /\ "tool.execute.before" \in hooks
    /\ Len(history) < MaxPasses
    /\ LET d == HookDecision(config, tool, command)
       IN  /\ history' = Append(history,
                  [tool |-> tool, before |-> command, after |-> d.command,
                   result |-> d.result])
           /\ sessionStats' =
                  IF d.result = "rewritten"
                  THEN TrackRewrite(sessionStats, Trim(command))
                  ELSE sessionStats
           /\ pending' =
                  IF d.result = "rewritten" THEN pending \cup {Len(history) + 1}
                  ELSE pending
    /\ UNCHANGED <<configFile, commandFile, phase, config, hooks,
                   gainReport, restarts, cliVars>>

\* The log call of a suspended invocation settles: the invocation resumes
\* and returns.
ToolExecuteBeforeResume ==
    /\ \E k \in pending : pending' = pending \ {k}
    /\ UNCHANGED <<configFile, commandFile, phase, config, hooks, history,
                   sessionStats, gainReport, restarts, cliVars>>

\* The host invokes the hook while earlier invocations may be suspended.
ConcurrentCall ==
    \E call \in SessionCalls : ToolExecuteBeforeUntilAwait(call.tool, call.command)

InitConcurrent == InitWith(SessionFiles, {"user"})

NextConcurrent == RTKPlugin \/ ConcurrentCall \/ ToolExecuteBeforeResume

SpecConcurrent == InitConcurrent /\ [][NextConcurrent]_vars

(***************************************************************************)
(* The command line tool (src/cli.ts) and opencode.json.  The file is      *)
(* absent, unparseable, or a parsed object: a function from its keys to    *)
(* their values, the "plugin" key to a list of strings.                    *)
(***************************************************************************)
PLUGIN_NAME ==
    <<"@", "r", "e", "z", "a", "m", "o", "n", "a", "n", "g", "g", "/",
      "o", "p", "e", "n", "c", "o", "d", "e", "-", "r", "t", "k">>

\* Entries of the plugin list: the plugin by its bare name, pinned to a
\* version, a package whose name only starts like it, and another plugin.
PluginEntries ==
    { PLUGIN_NAME,
      PLUGIN_NAME \o <<"@", "1", ".", "0", ".", "0">>,
      PLUGIN_NAME \o <<"-", "x">>,
      <<"o", "t", "h", "e", "r">> }

\* Plugin lists of up to two entries, repeated ones included.
PluginLists ==
    {<<>>} \cup {<<e>> : e \in PluginEntries}
           \cup {<<e, f>> : e \in PluginEntries, f \in PluginEntries}

\* A text JSON.parse rejects (a comment, a trailing comma) in which the
\* user has written the settings.
FileUnparseable(settings) == [kind |-> "malformed", settings |-> settings]

\* Contents of opencode.json: with and without a plugin list, with and
\* without another setting.
OpencodeFiles ==
    {FileAbsent, FileMalformed, FileUnparseable([theme |-> "dark"])}
    \cup {FileJson([plugin |-> l]) : l \in PluginLists}
    \cup {FileJson([plugin |-> l, theme |-> "dark"]) : l \in PluginLists}
    \cup {FileJson([theme |-> "dark"]), FileJson([k \in {} |-> <<>>])}

\* readOpenCodeConfig: the parsed file, or an object with an empty plugin
\* list when the file is absent or unparseable.
readOpenCodeConfig(file) ==
    IF file.kind \in {"absent", "malformed"} THEN [plugin |-> <<>>]
    ELSE file.parsed

\* isPluginConfigured recognising the bare plugin name only.
isPluginConfigured_ExactNameOnly(cfg) ==
    LET plugins == IF "plugin" \in DOMAIN cfg THEN cfg.plugin ELSE <<>>
    IN  \E i \in 1..Len(plugins) : plugins[i] = PLUGIN_NAME

\* isPluginConfigured: some entry is the plugin name, or starts with the
\* name and "@".
isPluginConfigured(cfg) ==
    LET plugins == IF "plugin" \in DOMAIN cfg THEN cfg.plugin ELSE <<>>
    IN  \E i \in 1..Len(plugins) :
            \/ plugins[i] = PLUGIN_NAME
            \/ StartsWith(plugins[i], PLUGIN_NAME \o <<"@">>)

\* Array.prototype.indexOf, counted from 1, 0 when there is no such entry.
ArrayIndexOf(a, x) == IndexOf(a, <<x>>)

\* Array.prototype.splice(index, 1).
Splice(a, index) == SubSeq(a, 1, index - 1) \o SubSeq(a, index + 1, Len(a))

MSG_NOT_CONFIGURED == "Plugin is not configured"
MSG_NOTHING_TO_REMOVE == "Plugin not configured"
MSG_REMOVED_FROM_FILE == "Plugin removed from opencode.json"
MSG_REMOVED == "Plugin removed. Restart OpenCode for changes to take effect."
MSG_CANCELLED == "Uninstall cancelled."

\* removePluginFromConfig: the file it leaves and the message it logs; it
\* removes the first entry that is exactly the plugin name, when writing
\* the file succeeds.
removePluginFromConfig(file, writeOk) ==
    LET cfg == readOpenCodeConfig(file)
    IN  IF "plugin" \notin DOMAIN cfg
        THEN [outcome |-> "done", file |-> file, message |-> MSG_NOTHING_TO_REMOVE]
        ELSE LET index == ArrayIndexOf(cfg.plugin, PLUGIN_NAME)
             IN  IF index = 0
                 THEN [outcome |-> "done", file |-> file,
                       message |-> MSG_NOTHING_TO_REMOVE]
                 ELSE IF ~writeOk
                 THEN [outcome |-> "throw", file |-> file, message |-> "Error:"]
                 ELSE [outcome |-> "done",
                       file |-> FileJson([cfg EXCEPT !.plugin = Splice(@, index)]),
                       message |-> MSG_REMOVED_FROM_FILE]

\* The uninstall command: exits when the plugin is not configured, asks
\* the user otherwise, and on a yes calls removePluginFromConfig and
\* reports the plugin removed.
Uninstall ==
    /\ \E shouldRemove \in BOOLEAN, writeOk \in BOOLEAN :
        LET cfg == readOpenCodeConfig(opencodeJson)
            removal == removePluginFromConfig(opencodeJson, writeOk)
        IN  IF ~isPluginConfigured(cfg)
            THEN /\ cliResult' = [command |-> "uninstall", asked |-> FALSE,
                                  answer |-> FALSE,
                                  messages |-> <<MSG_NOT_CONFIGURED>>, exit |-> 0]
                 /\ opencodeJson' = opencodeJson
            ELSE IF ~shouldRemove
            THEN /\ cliResult' = [command |-> "uninstall", asked |-> TRUE,
                                  answer |-> FALSE,
                                  messages |-> <<MSG_CANCELLED>>, exit |-> 0]
                 /\ opencodeJson' = opencodeJson
            ELSE IF removal.outcome = "throw"
            THEN /\ cliResult' = [command |-> "uninstall", asked |-> TRUE,
                                  answer |-> TRUE,
                                  messages |-> <<removal.message>>, exit |-> 1]
                 /\ opencodeJson' = opencodeJson
            ELSE /\ cliResult' = [command |-> "uninstall", asked |-> TRUE,
                                  answer |-> TRUE,
                                  messages |-> <<removal.message, MSG_REMOVED>>,
                                  exit |-> 0]
                 /\ opencodeJson' = removal.file
    /\ UNCHANGED <<configFile, commandFile, phase, config, hooks, history,
                   sessionStats, gainReport, restarts, pending>>

MSG_NO_RTK == "RTK not found in PATH"
MSG_NO_OPENCODE_CONFIG == "OpenCode config not found"
MSG_ALREADY_IN_FILE == "Plugin already configured in opencode.json"
MSG_NOT_YET == "Plugin not yet configured"
MSG_ADDED == "Plugin added to opencode.json"
MSG_ALREADY == "Plugin already configured"
MSG_SKIPPED == "Skipped. You can manually add it later:"

\* Array.prototype.includes.
Includes(a, x) == \E i \in 1..Len(a) : a[i] = x

\* The object with its plugin key set to a list.
WithPlugin(cfg, list) ==
    [k \in DOMAIN cfg \cup {"plugin"} |-> IF k = "plugin" THEN list ELSE cfg[k]]

\* addPluginToConfig: the file it leaves and the message it logs; it
\* appends the plugin name to the list (an empty one when the object has
\* none) unless the list includes exactly that name, and writes the object
\* it read.
addPluginToConfig(file, writeOk) ==
    LET cfg == readOpenCodeConfig(file)
        plugins == IF "plugin" \in DOMAIN cfg THEN cfg.plugin ELSE <<>>
    IN  IF Includes(plugins, PLUGIN_NAME)
        THEN [outcome |-> "done", file |-> file, message |-> MSG_ALREADY]
        ELSE IF ~writeOk
        THEN [outcome |-> "throw", file |-> file, message |-> "Error:"]
        ELSE [outcome |-> "done",
              file |-> FileJson(WithPlugin(cfg, Append(plugins, PLUGIN_NAME))),
              message |-> MSG_ADDED]

\* The install command: exits when rtk or opencode.json is missing; asks
\* the user when the plugin is not configured, and on a yes calls
\* addPluginToConfig.
Install ==
    /\ \E rtkInstalled \in BOOLEAN, shouldInstall \in BOOLEAN, writeOk \in BOOLEAN :
        LET cfg == readOpenCodeConfig(opencodeJson)
            addition == addPluginToConfig(opencodeJson, writeOk)
            Result(asked, answer, messages, exit) ==
                [command |-> "install", asked |-> asked, answer |-> answer,
                 messages |-> messages, exit |-> exit]
        IN  IF ~rtkInstalled
            THEN /\ cliResult' = Result(FALSE, FALSE, <<MSG_NO_RTK>>, 1)
                 /\ opencodeJson' = opencodeJson
            ELSE IF opencodeJson.kind = "absent"
            THEN /\ cliResult' = Result(FALSE, FALSE, <<MSG_NO_OPENCODE_CONFIG>>, 1)
                 /\ opencodeJson' = opencodeJson
            ELSE IF isPluginConfigured(cfg)
            THEN /\ cliResult' = Result(FALSE, FALSE, <<MSG_ALREADY_IN_FILE>>, 0)
                 /\ opencodeJson' = opencodeJson
            ELSE IF ~shouldInstall
            THEN /\ cliResult' = Result(TRUE, FALSE, <<MSG_NOT_YET, MSG_SKIPPED>>, 0)
                 /\ opencodeJson' = opencodeJson
            ELSE IF addition.outcome = "throw"
            THEN /\ cliResult' = Result(TRUE, TRUE, <<MSG_NOT_YET, addition.message>>, 1)
                 /\ opencodeJson' = opencodeJson
            ELSE /\ cliResult' = Result(TRUE, TRUE, <<MSG_NOT_YET, addition.message>>, 0)
                 /\ opencodeJson' = addition.file
    /\ UNCHANGED <<configFile, commandFile, phase, config, hooks, history,
                   sessionStats, gainReport, restarts, pending>>

InitCli ==
    /\ InitPlugin({FileAbsent}, {"absent"})
    /\ opencodeJson \in OpencodeFiles
    /\ cliResult = NoRun

NextCli == Uninstall \/ Install

SpecCli == InitCli /\ [][NextCli]_vars

(***************************************************************************)
(* The claims.  Every call is appended to history when it is made, so a    *)
(* statement about the latest call, true in every reachable state, is a    *)
(* statement about every call of every sequence of calls.                  *)
(***************************************************************************)
Called == history # <<>>

\* The latest call.
LastCall == history[Len(history)]

\* The latest call was handled by the registered hook for the bash tool.
HookCalled == Called /\ LastCall.result # "nohook" /\ LastCall.tool = "bash"

\* The word-boundary rule as the specification words it: c is p, or c
\* starts with p and the next character is one space.
MatchesAtWordBoundary(c, p) ==
    \/ c = p
    \/ /\ Len(c) > Len(p)
       /\ \A i \in 1..Len(p) : c[i] = p[i]
       /\ c[Len(p) + 1] = SP

MatchesSomePattern(c, patterns) ==
    \E i \in 1..Len(patterns) : MatchesAtWordBoundary(c, patterns[i])

\* Every pattern of the model's configurations.
PatternsUnderTest ==
    UNION {{l[i] : i \in 1..Len(l)} : l \in PatternLists \cup {DEFAULT_commands}}

S_lsof == <<"l", "s", "o", "f">>
S_make_build == <<"m", "a", "k", "e", " ", "b", "u", "i", "l", "d">>
S_rtk_git_status == <<"r", "t", "k", " ", "g", "i", "t", " ", "s", "t", "a", "t", "u", "s">>

\* C1: for the trimmed command of every call and every pattern p,
\* shouldWrap(c, [p]) is true if and only if c equals p or c starts with p
\* immediately followed by one space.
C1_WordBoundary ==
    Called =>
        LET c == Trim(LastCall.before)
        IN  \A p \in PatternsUnderTest :
                shouldWrap(c, <<p>>) <=> MatchesAtWordBoundary(c, p)

\* C1's case: the hook met "lsof" with the pattern "ls" configured and left
\* it alone.
C1_Witness ==
    /\ HookCalled
    /\ LastCall.before = S_lsof
    /\ \E i \in 1..Len(config.commands) : config.commands[i] = S_ls
    /\ ~shouldWrap(S_lsof, <<S_ls>>)
    /\ LastCall.result = "unchanged"

\* A pipe, "&&", "||", a semicolon or "<<" occurs somewhere in the command.
ContainsShellOperator(c) ==
    \E i \in 1..Len(c) :
        \/ c[i] = "|"
        \/ c[i] = ";"
        \/ i < Len(c) /\ <<c[i], c[i + 1]>> \in {<<"&", "&">>, <<"|", "|">>, <<"<", "<">>}

\* C2: a command that contains a pipe, "&&", "||", a semicolon or "<<" is
\* not simple, and the hook hands it on unrewritten whatever the patterns
\* and aliases are.
C2_OperatorsNeverRewritten ==
    (Called /\ ContainsShellOperator(LastCall.before)) =>
        /\ ~isSimpleCommand(LastCall.before)
        /\ ~isSimpleCommand(Trim(LastCall.before))
        /\ LastCall.after = LastCall.before
        /\ LastCall.result \in {"unchanged", "nohook"}

\* C2's case: the hook met a command with a heredoc marker whose leading
\* words match a configured pattern, and left it alone.
C2_Witness ==
    /\ HookCalled
    /\ \E i \in 1..(Len(LastCall.before) - 1) :
           LastCall.before[i] = "<" /\ LastCall.before[i + 1] = "<"
    /\ MatchesSomePattern(Trim(LastCall.before), config.commands)
    /\ LastCall.result = "unchanged"

\* C3: under every enabled configuration, a command whose trimmed form
\* starts with "rtk" and a space is left unchanged by the hook.
C3_AlreadyPrefixedUnchanged ==
    HookCalled =>
        LET c == Trim(LastCall.before)
        IN  (Len(c) >= 4 /\ <<c[1], c[2], c[3], c[4]>> = RTK_SPACE) =>
                /\ LastCall.result = "unchanged"
                /\ LastCall.after = LastCall.before

\* C3's case: "rtk git status" reached the hook under a configuration whose
\* patterns match it, and was left unchanged.
C3_Witness ==
    /\ HookCalled
    /\ LastCall.before = S_rtk_git_status
    /\ MatchesSomePattern(LastCall.before, config.commands)
    /\ ~ContainsShellOperator(LastCall.before)
    /\ LastCall.result = "unchanged"

\* The head token: the characters of the trimmed command before its first
\* whitespace character.
HeadToken(c) ==
    LET ws == {i \in 1..Len(c) : c[i] \in Whitespace}
    IN  IF ws = {} THEN c
        ELSE SubSeq(c, 1, (CHOOSE i \in ws : \A j \in ws : i <= j) - 1)

\* The latest call is one the rewrite applies to: a bash command that is
\* not empty, not already prefixed, safe and matched.
Eligible ==
    /\ HookCalled
    /\ LastCall.before # <<>>
    /\ ~StartsWith(Trim(LastCall.before), RTK_SPACE)
    /\ ~ContainsShellOperator(LastCall.before)
    /\ MatchesSomePattern(Trim(LastCall.before), config.commands)

\* C4: a matched, safe command whose head token is a key of the alias table
\* is rewritten to the alias value followed by the rest of the trimmed
\* command after the head, unchanged.
C4_AliasByPosition ==
    Eligible =>
        LET c == Trim(LastCall.before)
            head == HeadToken(c)
        IN  head \in DOMAIN config.rewriteMap =>
                /\ LastCall.result = "rewritten"
                /\ LastCall.after =
                       config.rewriteMap[head] \o SubSeq(c, Len(head) + 1, Len(c))

\* C5: a matched, safe command whose head token is not a key of the alias
\* table is rewritten to "rtk", one space and the trimmed command.
C5_FallbackPrefix ==
    Eligible =>
        LET c == Trim(LastCall.before)
        IN  HeadToken(c) \notin DOMAIN config.rewriteMap =>
                /\ LastCall.result = "rewritten"
                /\ LastCall.after = RTK_SPACE \o c

\* C6: with enabled = false no command is rewritten: after every call of
\* every sequence of calls the command handed on equals the one received,
\* and no hook is registered.
C6_KillSwitch ==
    (phase = "loaded" /\ config.enabled = JBool(FALSE)) =>
        /\ hooks = {}
        /\ \A k \in 1..Len(history) :
               /\ history[k].after = history[k].before
               /\ history[k].result = "nohook"

\* C6's case: a disabled plugin saw two calls of the bash tool with a
\* command the same configuration would rewrite were it enabled.
C6_Witness ==
    /\ phase = "loaded"
    /\ config.enabled = JBool(FALSE)
    /\ Len(history) >= 2
    /\ history[1].tool = "bash"
    /\ history[1].before # <<>>
    /\ MatchesSomePattern(Trim(history[1].before), config.commands)
    /\ ~ContainsShellOperator(history[1].before)
    /\ history[2].after = history[1].before

\* C7: a command that matches none of the configured patterns (any command
\* when the list is empty) is left unchanged by the hook.
C7_NoMatchUnchanged ==
    (HookCalled /\ ~MatchesSomePattern(Trim(LastCall.before), config.commands)) =>
        /\ LastCall.result = "unchanged"
        /\ LastCall.after = LastCall.before

\* C7's case: "make build" under the patterns git, ls, cat passed through.
C7_Witness ==
    /\ HookCalled
    /\ LastCall.before = S_make_build
    /\ config.commands = <<S_git, S_ls, S_cat>>
    /\ ~ContainsShellOperator(LastCall.before)
    /\ LastCall.result = "unchanged"

\* C8: if the hook rewrote a command, a second pass of the hook over its
\* output under the same configuration leaves it unchanged.
C8_NoDoubleWrap ==
    (HookCalled /\ Len(history) >= 2) =>
        LET first == history[Len(history) - 1]
        IN  (first.result = "rewritten" /\ LastCall.before = first.after) =>
                /\ LastCall.result = "unchanged"
                /\ LastCall.after = first.after

\* C9: every call of the hook returns, either leaving the command or having
\* rewritten it; none raises an error.
C9_Total ==
    Called => LastCall.result # "threw"

\* C10: a command that is empty after trimming is left unchanged by the
\* hook under every configuration the loader hands over.
C10_EmptyUnchanged ==
    (HookCalled /\ Trim(LastCall.before) = <<>>) =>
        /\ LastCall.result = "unchanged"
        /\ LastCall.after = LastCall.before

\* C11: a bash call is rewritten if and only if all five guards pass (the
\* plugin is enabled, the command is not empty after trimming, it does not
\* already start with "rtk ", it holds no shell operator, and a pattern
\* matches it); a failing guard alone leaves the command unchanged.
C11_GuardsDecide ==
    (Called /\ LastCall.tool = "bash") =>
        LET c == Trim(LastCall.before)
            allPass == /\ Truthy(config.enabled)
                       /\ c # <<>>
                       /\ ~StartsWith(c, RTK_SPACE)
                       /\ ~ContainsShellOperator(c)
                       /\ MatchesSomePattern(c, config.commands)
        IN  /\ (LastCall.result = "rewritten") <=> allPass
            /\ ~allPass =>
                   /\ LastCall.after = LastCall.before
                   /\ LastCall.result \in {"unchanged", "nohook"}

\* C12: whenever a call ends without a rewrite (another tool, an empty
\* command, one already prefixed, one that is not simple, one no pattern
\* matches), output.args.command after the call is character for character
\* the value before it, leading and trailing whitespace included.
C12_PassThroughUntouched ==
    (Called /\ LastCall.result # "rewritten") =>
        /\ LastCall.after = LastCall.before
        /\ Len(LastCall.after) = Len(LastCall.before)

\* C12's case: the hook passed a bash command with surrounding whitespace
\* through, and the whitespace is still there.
C12_Witness ==
    /\ HookCalled
    /\ LastCall.result = "unchanged"
    /\ Trim(LastCall.before) # LastCall.before
    /\ Trim(LastCall.before) # <<>>
    /\ LastCall.after = LastCall.before

\* C13: once the plugin is initialised, no hook invocation, rtk_gain call
\* or edit of the file changes the configuration the plugin holds (enabled,
\* patterns, alias table) or the hooks it registered; DEFAULT_CONFIG is a
\* constant no operation assigns to.
C13_ConfigNeverMutated ==
    [][(phase = "loaded" /\ phase' = "loaded") =>
           /\ config' = config
           /\ hooks' = hooks]_vars

\* C13's case: after two hook invocations, one of them a rewrite, and an
\* rtk_gain report of it, the plugin holds the configuration it loaded.
C13_Witness ==
    /\ phase = "loaded"
    /\ Len(history) = MaxPasses
    /\ \E k \in 1..Len(history) : history[k].result = "rewritten"
    /\ gainReport.kind = "stats"
    /\ config.commands = << <<"a", " ", "b">>, <<"b">> >>
    /\ config.rewriteMap = (<<"a">> :> <<"b">>)

\* A field of the parsed file is of the shape the configuration asks for.
WellFormedField(parsed, f) ==
    /\ HasField(parsed, f)
    /\ parsed[f].type = (CASE f = "enabled" -> "boolean"
                           [] f = "commands" -> "array"
                           [] f = "rewriteMap" -> "object")

\* The value the claim of C14 asks of the loader for a field: the file's
\* value when it is well formed, the built-in default otherwise.
ValueOrDefault(file, f) ==
    IF file.kind = "json" /\ WellFormedField(file.parsed, f)
    THEN (IF f = "enabled" THEN file.parsed[f] ELSE file.parsed[f].val)
    ELSE DEFAULT_CONFIG[f]

\* Equality of an "enabled" value with a JSON value, types first.
SameJson(v, w) == v.type = w.type /\ v.val = w.val

\* C14: for every content of rtk-wrapper-config.json, initialisation ends
\* with a configuration (it never raises) whose every field is the file's
\* value when that is well formed and the built-in default when it is
\* malformed or missing.
C14_MalformedGetsDefaults ==
    [][(phase = "start" /\ phase' = "loaded") =>
           /\ SameJson(config'.enabled, ValueOrDefault(configFile, "enabled"))
           /\ config'.commands = ValueOrDefault(configFile, "commands")
           /\ config'.rewriteMap = ValueOrDefault(configFile, "rewriteMap")]_vars

\* C15: every configuration the plugin holds after initialisation, from the
\* defaults or from a file the loader accepted, has patterns that are
\* non-empty and trimmed and alias keys that are single tokens without
\* whitespace.
C15_ConfigInvariant ==
    phase = "loaded" =>
        /\ \A i \in 1..Len(config.commands) :
               /\ config.commands[i] # <<>>
               /\ Trim(config.commands[i]) = config.commands[i]
        /\ \A k \in DOMAIN config.rewriteMap :
               /\ k # <<>>
               /\ \A i \in 1..Len(k) : k[i] \notin Whitespace

\* C16: the configuration is read from rtk-wrapper-config.json when the
\* plugin is initialised and at no other time: it is what the loader makes
\* of the file as it is then, it stays the same while the plugin runs
\* whatever happens to the file, and every later hook decision is the one
\* that configuration gives; a changed file counts from the next
\* initialisation on.
C16_LoadedOnce ==
    [][/\ (phase = "start" /\ phase' = "loaded") =>
              /\ config' = loadOrCreateConfig(configFile)
              /\ hooks' = RegisteredHooks(config')
       /\ (phase = "loaded" /\ phase' = "loaded") =>
              /\ config' = config
              /\ (Len(history') > Len(history) /\ "tool.execute.before" \in hooks) =>
                     LET call == history'[Len(history')]
                         d == HookDecision(config, call.tool, call.before)
                     IN  call.result = d.result /\ call.after = d.command]_vars

\* C16's case: the file now on disk would have the hook decide the latest
\* call otherwise, and the hook decided it as the configuration loaded at
\* initialisation says.
C16_Witness ==
    /\ HookCalled
    /\ loadOrCreateConfig(configFile).commands # config.commands
    /\ LET now == HookDecision(loadOrCreateConfig(configFile), "bash", LastCall.before)
           held == HookDecision(config, "bash", LastCall.before)
       IN  /\ now.command # held.command
           /\ LastCall.after = held.command
           /\ LastCall.result = held.result

\* C17: a call of the hook for a tool other than bash leaves the command
\* in output.args as it was and records nothing in the session statistics,
\* also when the command would match a pattern.
C17_OnlyBash ==
    [][(Len(history') > Len(history) /\ history'[Len(history')].tool # "bash") =>
           /\ history'[Len(history')].after = history'[Len(history')].before
           /\ history'[Len(history')].result \in {"unchanged", "nohook"}
           /\ sessionStats' = sessionStats]_vars

\* C17's case: the hook of an enabled plugin saw another tool with a
\* command that a bash call would have had rewritten.
C17_Witness ==
    /\ Called
    /\ LastCall.tool # "bash"
    /\ LastCall.result = "unchanged"
    /\ HookDecision(config, "bash", LastCall.before).result = "rewritten"
    /\ LastCall.after = LastCall.before
    /\ sessionStats.rewriteCount = 0

\* The pattern list in other orders: every permutation of a short list;
\* the reversal, the rotation by one place and the rotation by half its
\* length of a long one.
Reorderings(l) ==
    LET n == Len(l)
    IN  IF n <= MaxPermuted
        THEN {[i \in 1..n |-> l[p[i]]] :
                 p \in {q \in [1..n -> 1..n] :
                           \A i, j \in 1..n : i # j => q[i] # q[j]}}
        ELSE {[i \in 1..n |-> l[n + 1 - i]]}
             \cup {[i \in 1..n |-> l[((i + k - 1) % n) + 1]] : k \in {1, n \div 2}}

\* C18: shouldWrap is true exactly when at least one entry of the list
\* matches by the word-boundary rule, and the list in any other order gives
\* the same match result and the same hook decision.
C18_PatternOrderIrrelevant ==
    Called =>
        LET c == LastCall.before
        IN  /\ shouldWrap(c, config.commands)
                   <=> MatchesSomePattern(Trim(c), config.commands)
            /\ \A reordered \in Reorderings(config.commands) :
                   /\ shouldWrap(c, reordered) <=> shouldWrap(c, config.commands)
                   /\ HookDecision([config EXCEPT !.commands = reordered],
                                   LastCall.tool, c)
                          = HookDecision(config, LastCall.tool, c)

\* C18's case: a command that only the second of two patterns matches was
\* rewritten.
C18_Witness ==
    /\ HookCalled
    /\ LastCall.result = "rewritten"
    /\ Len(config.commands) = 2
    /\ ~MatchesAtWordBoundary(Trim(LastCall.before), config.commands[1])
    /\ MatchesAtWordBoundary(Trim(LastCall.before), config.commands[2])
    /\ config.commands[1] # config.commands[2]

\* C19: with hook invocations interleaved at their suspension points, in
\* any order, every invocation has the result and the command it would
\* have alone under the configuration: those of HookDecision on its own
\* tool and command.
C19_InterleavingSafe ==
    (phase = "loaded" /\ "tool.execute.before" \in hooks) =>
        \A k \in 1..Len(history) :
            LET alone == HookDecision(config, history[k].tool, history[k].before)
            IN  /\ history[k].result = alone.result
                /\ history[k].after = alone.command

\* C19's case: two invocations that rewrote different commands are
\* suspended at the same time.
C19_Witness ==
    /\ Cardinality(pending) >= 2
    /\ \E j, k \in pending :
           /\ j < k
           /\ history[j].before # history[k].before
           /\ history[j].after # history[k].after
           /\ history[j].result = "rewritten"
           /\ history[k].result = "rewritten"

\* C20: when opencode.json has the plugin configured, uninstall has run
\* and the user has confirmed, and the tool reports the plugin removed,
\* the file no longer has the plugin configured.
C20_UninstallRemoves ==
    (/\ cliResult.command = "uninstall"
     /\ cliResult.asked
     /\ cliResult.answer
     /\ cliResult.exit = 0)
        => ~isPluginConfigured(readOpenCodeConfig(opencodeJson))

\* The command holds a command substitution: "$(" with a closing
\* parenthesis after it, or a pair of backquotes.
ContainsSubshell(c) ==
    \/ \E i \in 1..Len(c) : \E j \in 1..Len(c) :
           /\ i + 1 < j
           /\ c[i] = "$"
           /\ c[i + 1] = "("
           /\ c[j] = ")"
    \/ \E i \in 1..Len(c) : \E j \in 1..Len(c) :
           i < j /\ c[i] = BACKQUOTE /\ c[j] = BACKQUOTE

\* C21: a command that contains a command substitution, "$(...)" or
\* backquotes, is not simple, and the hook hands it on unrewritten.
C21_SubshellsSkipped ==
    (Called /\ ContainsSubshell(LastCall.before)) =>
        /\ ~isSimpleCommand(LastCall.before)
        /\ LastCall.after = LastCall.before

\* The sum of the per-command counts over the keys of a set.
RECURSIVE SumOfCounts(_, _)
SumOfCounts(commands, keys) ==
    IF keys = {} THEN 0
    ELSE LET k == CHOOSE x \in keys : TRUE
         IN  commands[k].val + SumOfCounts(commands, keys \ {k})

\* The calls so far that rewrote their command.
RewritingCalls == {k \in 1..Len(history) : history[k].result = "rewritten"}

\* C22: sessionStats starts with rewriteCount 0 and no per-command entry;
\* in every state rewriteCount is the number of hook invocations since
\* plugin load that rewrote a command, every per-command count is a number
\* and their sum is rewriteCount.
C22_StatsInvariant ==
    /\ phase = "start" => (sessionStats.rewriteCount = 0 /\ DOMAIN sessionStats.commands = {})
    /\ sessionStats.rewriteCount = Cardinality(RewritingCalls)
    /\ \A k \in DOMAIN sessionStats.commands : sessionStats.commands[k].type = "number"
    /\ SumOfCounts(sessionStats.commands, DOMAIN sessionStats.commands)
           = sessionStats.rewriteCount

\* The rewriting calls so far whose command has the statistics key.
RewritesWithKey(key) ==
    {k \in RewritingCalls : CmdKey(Trim(history[k].before)) = key}

\* C23: once every interleaved hook invocation has finished, rewriteCount
\* is the number of invocations that rewrote a command and each
\* per-command count is the number of rewrites with that key: no increment
\* is lost or counted twice.
C23_NoLostUpdates ==
    (phase = "loaded" /\ pending = {}) =>
        /\ sessionStats.rewriteCount = Cardinality(RewritingCalls)
        /\ \A k \in RewritingCalls :
               CmdKey(Trim(history[k].before)) \in DOMAIN sessionStats.commands
        /\ \A key \in DOMAIN sessionStats.commands :
               /\ sessionStats.commands[key].type = "number"
               /\ sessionStats.commands[key].val = Cardinality(RewritesWithKey(key))

\* The first two whitespace-delimited words of a trimmed command joined by
\* one space, or its only word.
KeyOfFirstTwoWords(c) ==
    LET head == HeadToken(c)
        rest == Trim(SubSeq(c, Len(head) + 1, Len(c)))
    IN  IF rest = <<>> THEN head ELSE head \o <<SP>> \o HeadToken(rest)

S_git_status == <<"g", "i", "t", " ", "s", "t", "a", "t", "u", "s">>
S_git_status_s == S_git_status \o <<" ", "-", "s">>
S_git_diff == <<"g", "i", "t", " ", "d", "i", "f", "f">>

\* C24: a rewrite is counted under the key made of the first two
\* whitespace-delimited words of the trimmed command, or its only word:
\* that entry and no other changes, a count by one; "git status" and
\* "git status -s" share the key "git status", "git diff" and "ls" have
\* their own.
C24_KeyGrouping ==
    [][/\ CmdKey(S_git_status) = S_git_status
       /\ CmdKey(S_git_status_s) = S_git_status
       /\ CmdKey(S_git_diff) = S_git_diff
       /\ CmdKey(S_ls) = S_ls
       /\ (Len(history') > Len(history)
              /\ history'[Len(history')].result = "rewritten") =>
              LET key == KeyOfFirstTwoWords(Trim(history'[Len(history')].before))
                  old == sessionStats.commands
                  new == sessionStats'.commands
              IN  /\ DOMAIN new = DOMAIN old \cup {key}
                  /\ \A k \in DOMAIN old \ {key} : new[k] = old[k]
                  /\ new[key].type = "number" =>
                         new[key].val = (IF key \in DOMAIN old THEN old[key].val ELSE 0) + 1
                  /\ key \in DOMAIN old => new[key].val # old[key].val]_vars

\* C24's case: "git status -s" was rewritten and is counted once under
\* "git status".
C24_Witness ==
    /\ HookCalled
    /\ LastCall.result = "rewritten"
    /\ LastCall.before = S_git_status_s
    /\ S_git_status \in DOMAIN sessionStats.commands
    /\ sessionStats.commands[S_git_status].type = "number"
    /\ sessionStats.commands[S_git_status].val = 1
    /\ S_git_status_s \notin DOMAIN sessionStats.commands

\* The line of a report is the one of a key: the key padded with spaces.
LineIsFor(line, key) ==
    /\ StartsWith(line.cmd, key)
    /\ \A i \in (Len(key) + 1)..Len(line.cmd) : line.cmd[i] = SP

\* C25: a report of rtk_gain is the "No commands rewritten yet." one
\* exactly when rewriteCount is 0; any other states rewriteCount as its
\* total and lists every counted command exactly once, with its count, a
\* number, the lines in order of count descending.
C25_Report ==
    [][(gainReport' # gainReport /\ gainReport'.kind # "none") =>
           LET report == gainReport'
               commands == sessionStats.commands
           IN  /\ (report.kind = "empty") <=> (sessionStats.rewriteCount = 0)
               /\ report.kind = "stats" =>
                      /\ report.total = sessionStats.rewriteCount
                      /\ Len(report.lines) = Cardinality(DOMAIN commands)
                      /\ \A key \in DOMAIN commands :
                             \E i \in 1..Len(report.lines) :
                                 /\ LineIsFor(report.lines[i], key)
                                 /\ report.lines[i].count.type = "number"
                                 /\ report.lines[i].count.val = commands[key].val
                                 /\ \A j \in 1..Len(report.lines) :
                                        LineIsFor(report.lines[j], key) => j = i
                      /\ \A i, j \in 1..Len(report.lines) :
                             i < j => report.lines[i].count.val >= report.lines[j].count.val]_vars

PluginListOf(file) ==
    IF file.kind = "json" /\ "plugin" \in DOMAIN file.parsed THEN file.parsed.plugin
    ELSE <<>>

\* The entries of the list that name the plugin: by its bare name, or by
\* the name, "@" and a version.
PluginPositions(file) ==
    LET l == PluginListOf(file)
        n == Len(PLUGIN_NAME)
    IN  {i \in 1..Len(l) :
            /\ Len(l[i]) >= n
            /\ SubSeq(l[i], 1, n) = PLUGIN_NAME
            /\ Len(l[i]) > n => l[i][n + 1] = "@"}

\* The entries that are exactly the bare name.
BareNamePositions(file) ==
    {i \in 1..Len(PluginListOf(file)) : PluginListOf(file)[i] = PLUGIN_NAME}

\* C27: an install run adds no entry when the plugin is already
\* configured, by its bare name or pinned to a version, and writes nothing
\* when the prompt is declined or not reached; a confirmed run on a file
\* without the plugin leaves the bare name in the list exactly once, so
\* that no number of further runs adds a second one.
C27_InstallAtMostOnce ==
    [][cliResult'.command = "install" =>
           /\ PluginPositions(opencodeJson) # {} => opencodeJson' = opencodeJson
           /\ ~(cliResult'.asked /\ cliResult'.answer) => opencodeJson' = opencodeJson
           /\ (cliResult'.asked /\ cliResult'.answer /\ cliResult'.exit = 0) =>
                  /\ Cardinality(BareNamePositions(opencodeJson')) = 1
                  /\ Cardinality(PluginPositions(opencodeJson')) = 1
           /\ Cardinality(PluginPositions(opencodeJson'))
                  <= Cardinality(PluginPositions(opencodeJson)) + 1]_vars

\* C27's case: a confirmed install has added the plugin after another
\* plugin's entry, once.
C27_Witness ==
    /\ cliResult.command = "install"
    /\ cliResult.asked
    /\ cliResult.answer
    /\ cliResult.exit = 0
    /\ Len(PluginListOf(opencodeJson)) >= 2
    /\ Cardinality(BareNamePositions(opencodeJson)) = 1
    /\ PluginListOf(opencodeJson)[Len(PluginListOf(opencodeJson))] = PLUGIN_NAME

\* The settings of opencode.json other than the plugin list: the other
\* keys of the parsed object, or the settings written in a text JSON.parse
\* rejects.
OtherSettings(file) ==
    LET all == IF file.kind = "json" THEN file.parsed
               ELSE IF "settings" \in DOMAIN file THEN file.settings
               ELSE [k \in {} |-> <<>>]
    IN  [k \in DOMAIN all \ {"plugin"} |-> all[k]]

\* C28: whenever install or uninstall writes opencode.json, every setting
\* other than the plugin list is after the write what it was before.
C28_OnlyPluginListTouched ==
    [][opencodeJson' # opencodeJson =>
           OtherSettings(opencodeJson') = OtherSettings(opencodeJson)]_vars

\* C29: the result of a hook call and the command it leaves are those the
\* guard chain gives for the tool, the command and the configuration
\* alone: a call with the tool and command of an earlier call of the
\* session ends as that one did, whatever was called in between, whatever
\* the statistics hold and whenever rtk_gain reported.
C29_HistoryIndependent ==
    (HookCalled /\ "tool.execute.before" \in hooks) =>
        /\ LET d == HookDecision(config, LastCall.tool, LastCall.before)
           IN  LastCall.result = d.result /\ LastCall.after = d.command
        /\ \A k \in 1..Len(history) :
               (history[k].tool = LastCall.tool /\ history[k].before = LastCall.before) =>
                   /\ history[k].result = LastCall.result
                   /\ history[k].after = LastCall.after

\* C29's case: the same command was rewritten twice, the second time with
\* the first rewrite already counted and reported.
C29_Witness ==
    /\ HookCalled
    /\ Len(history) >= 2
    /\ history[1].before = LastCall.before
    /\ history[1].result = "rewritten"
    /\ LastCall.result = "rewritten"
    /\ gainReport.kind = "stats"
    /\ gainReport.total = 1
    /\ sessionStats.rewriteCount = 2

\* C30: when the first word of a rewritten command is a key of the alias
\* table, the command handed on is, character for character, the alias
\* value followed by what came after the first word, and it is what
\* rewriteCommand returns: no "$" sequence of the value is taken as a
\* replacement pattern.
C30_AliasValueLiteral ==
    (HookCalled /\ LastCall.result = "rewritten") =>
        LET trimmed == Trim(LastCall.before)
            firstWord == SplitWs(trimmed)[1]
            value == config.rewriteMap[firstWord]
            remainder == SubSeq(trimmed, Len(firstWord) + 1, Len(trimmed))
        IN  firstWord \in DOMAIN config.rewriteMap =>
                /\ rewriteCommand(LastCall.before, config.rewriteMap)
                       = Normal(value \o remainder)
                /\ SubSeq(LastCall.after, 1, Len(value)) = value
                /\ SubSeq(LastCall.after, Len(value) + 1, Len(LastCall.after))
                       = remainder

=============================================================================
